---- MODULE Spec2Model ----
(***************************************************************************)
(* Gmail polling service (src/src/main.py): the identifier store           *)
(* (load/save/migrate), the three-phase duplicate suppression of           *)
(* check_mail, the dispatch of the two notifications and the main loop,    *)
(* with the environment's failures (storage, mailbox) and process crashes. *)
(***************************************************************************)
EXTENDS Naturals, Sequences, FiniteSets, TLC

(* ---------------------------------------------------------------- bounds *)

\* Mailbox positions (IMAP UIDs) in the search window are 1..MaxUid.
MaxUid == 2
\* Events of the environment per behaviour: failures of storage or mailbox
\* operations, crashes of the process, changes of the mailbox.
MaxEvents == 2

(* ------------------------------------------------------- values, strings *)

\* Python's None.
NONE == "<None>"

\* Python truthiness of an Optional[str]: None and "" are false.
Truthy(x) == x # NONE /\ x # ""

Digits == {"0", "1", "2", "3", "4", "5", "6", "7", "8", "9"}

\* str.startswith
StartsWith(s, p) == Len(s) >= Len(p) /\ SubSeq(s, 1, Len(p)) = p

\* str.isdigit: non-empty and every character a digit.
IsDigit(s) == Len(s) > 0 /\ \A i \in 1..Len(s) : SubSeq(s, i, i) \in Digits

\* The substring test `sub in s`.
Contains(s, sub) ==
    \E i \in 1..(Len(s) + 1) :
        i + Len(sub) - 1 <= Len(s) /\ SubSeq(s, i, i + Len(sub) - 1) = sub

\* uid.decode(): the decimal text of a mailbox position.
DecStr(n) == <<"0", "1", "2", "3", "4", "5", "6", "7", "8", "9">>[n + 1]

\* f"gm:{gm_msgid}", f"mid:{message_id}", f"uid:{uid_str}"
GmToken(gm_msgid) == "gm:" \o gm_msgid
MidToken(message_id) == "mid:" \o message_id
UidToken(uid_str) == "uid:" \o uid_str

(* ------------------------------------------------------------ the mailbox *)

\* The subject markers of determine_source (ASCII stand-ins for the two
\* Japanese phrases) and the fixed default URL.
INDEED_MARKER == "new applicant notice"
JIMOTY_MARKER == "jimoty"
JIMOTY_URL == "https://jmty.jp/web_mail/posts"

\* The messages a position can hold: what a full FETCH returns for each.
\*   A: provider id and Message-ID, Indeed subject
\*   B: Message-ID only, classifieds subject
\*   C: neither identity signal, Indeed subject
\*   D: provider id and Message-ID, subject of neither source
MsgNames == {"A", "B", "C", "D"}
NoMsg == "-"

Message(n) ==
    CASE n = "A" -> [gm_msgid |-> "7", message_id |-> "a@x",
                     subject |-> "Indeed: new applicant notice"]
      [] n = "B" -> [gm_msgid |-> NONE, message_id |-> "b@x",
                     subject |-> "[jimoty] inquiry"]
      [] n = "C" -> [gm_msgid |-> NONE, message_id |-> NONE,
                     subject |-> "Fwd: new applicant notice"]
      [] n = "D" -> [gm_msgid |-> "8", message_id |-> "d@x",
                     subject |-> "weekly newsletter"]

Positions == 1..MaxUid

RECURSIVE UidListFrom(_, _)
UidListFrom(mb, i) ==
    IF i > MaxUid THEN <<>>
    ELSE (IF mb[i] # NoMsg THEN <<i>> ELSE <<>>) \o UidListFrom(mb, i + 1)

\* data[0].split() of UID SEARCH SINCE: the positions in the window, in the
\* order the mailbox reports them.
UidList(mb) == UidListFrom(mb, 1)

(* ------------------------------------------------------- pure functions *)

\* The loop body of migrate_old_id_format (lines 84-93).
migrate_one_KeepDigits(id_value) == id_value

migrate_one_GmOnly(id_value) ==
    IF StartsWith(id_value, "gm:") THEN id_value ELSE GmToken(id_value)

migrate_one(id_value) ==
    IF StartsWith(id_value, "gm:") \/ StartsWith(id_value, "mid:") THEN id_value
    ELSE IF IsDigit(id_value) THEN GmToken(id_value)
    ELSE id_value

migrate_old_id_format(ids) == {migrate_one(id_value) : id_value \in ids}

determine_source_IndeedOnly(subject) ==
    IF Contains(subject, INDEED_MARKER) THEN [source |-> "indeed", url |-> NONE]
    ELSE [source |-> NONE, url |-> NONE]

determine_source_DefaultJimoty(subject) ==
    IF Contains(subject, INDEED_MARKER) THEN [source |-> "indeed", url |-> NONE]
    ELSE [source |-> "jimoty", url |-> JIMOTY_URL]

determine_source(subject) ==
    IF Contains(subject, INDEED_MARKER) THEN [source |-> "indeed", url |-> NONE]
    ELSE IF Contains(subject, JIMOTY_MARKER) THEN [source |-> "jimoty", url |-> JIMOTY_URL]
    ELSE [source |-> NONE, url |-> NONE]

get_unique_id_PreferMid(gm_msgid, message_id) ==
    IF Truthy(message_id) THEN MidToken(message_id)
    ELSE IF Truthy(gm_msgid) THEN GmToken(gm_msgid)
    ELSE NONE

get_unique_id_DropNoneCheck(gm_msgid, message_id) ==
    IF Truthy(gm_msgid) THEN GmToken(gm_msgid) ELSE MidToken(message_id)

get_unique_id(gm_msgid, message_id) ==
    IF Truthy(gm_msgid) THEN GmToken(gm_msgid)
    ELSE IF Truthy(message_id) THEN MidToken(message_id)
    ELSE NONE

(* ------------------------------------------------------- the store file *)

\* The content of PROCESSED_IDS_FILE:
\*   absent       no file (first run)
\*   array        a JSON array of strings, `items` its elements
\*   invalid      not JSON: garbage, an empty file, or the prefix a save that
\*                was cut short (crash or write error after open(..., "w")
\*                truncated the file) leaves
\*   undecodable  bytes that are not UTF-8
\*   object       a JSON object, `items` its keys
\*   scalar       a JSON number, null or boolean
\*   nonstr       a JSON array holding an element that is not a string
AbsentFile == [k |-> "absent", items |-> {}]
ArrayFile(ids) == [k |-> "array", items |-> ids]
InvalidFile == [k |-> "invalid", items |-> {}]

CorruptKinds == {"invalid", "undecodable", "object", "scalar", "nonstr"}

\* load_processed_ids as a function of the file: the set returned, the success
\* flag, whether an exception escapes, and whether the migrated set differs
\* from the loaded one (and is therefore saved at once).
\*   invalid      json.JSONDecodeError, caught: (set(), False)
\*   undecodable  UnicodeDecodeError, not caught
\*   scalar       len(data) raises TypeError, not caught
\*   nonstr       id_value.startswith raises AttributeError, not caught
\*   object       len() and set() work on a dict: its keys are loaded
load_processed_ids_FallThrough(f) ==
    IF f.k = "invalid" THEN
        [ids |-> {}, ok |-> FALSE, raised |-> FALSE, migrated |-> FALSE]
    ELSE [ids |-> {}, ok |-> TRUE, raised |-> FALSE, migrated |-> FALSE]

load_processed_ids(f) ==
    IF f.k = "absent" THEN
        [ids |-> {}, ok |-> TRUE, raised |-> FALSE, migrated |-> FALSE]
    ELSE IF f.k = "invalid" THEN
        [ids |-> {}, ok |-> FALSE, raised |-> FALSE, migrated |-> FALSE]
    ELSE IF f.k \in {"undecodable", "scalar", "nonstr"} THEN
        [ids |-> {}, ok |-> FALSE, raised |-> TRUE, migrated |-> FALSE]
    ELSE
        LET original_set == f.items
            migrated == migrate_old_id_format(original_set)
        IN  [ids |-> migrated, ok |-> TRUE, raised |-> FALSE,
             migrated |-> migrated # original_set]

\* save_processed_ids: the file after the call, by the environment's outcome.
\*   ok          the array is written
\*   fail_open   the directory cannot be made or open() fails: file untouched
\*   fail_write  open(..., "w") truncated the file and the write failed
SaveFaults == {"fail_open", "fail_write"}

save_processed_ids(f, ids, outcome) ==
    CASE outcome = "ok" -> ArrayFile(ids)
      [] outcome = "fail_open" -> f
      [] outcome = "fail_write" -> InvalidFile

(* ------------------------------------------- check_mail's pure steps *)

\* Phase 1 (lines 536-541): the positions whose uid: token is not in the set,
\* in the mailbox's order.
Phase1(uid_list, ids) ==
    LET NotCached(uid) == UidToken(DecStr(uid)) \notin ids
    IN  SelectSeq(uid_list, NotCached)

\* get_gm_msgid_lightweight: the gm: token of a position's message, or None
\* when the fetch status is not OK or the response carries no provider id.
get_gm_msgid_lightweight(name, outcome) ==
    IF outcome # "ok" THEN NONE
    ELSE IF Truthy(Message(name).gm_msgid) THEN GmToken(Message(name).gm_msgid)
    ELSE NONE

\* Phase 2's test (line 557): already processed under another position.
AlreadyProcessed_Never(gm_id, ids) == FALSE

AlreadyProcessed(gm_id, ids) == Truthy(gm_id) /\ gm_id \in ids

\* Lines 480-482: process_mail_by_uid's check of the identity against the set.
identity_known_Never(unique_id, ids) == FALSE

identity_known(unique_id, ids) == unique_id \in ids

\* Line 524: the cycle is abandoned when the load did not succeed.
load_aborts_Never(r) == FALSE

load_aborts(r) == ~r.ok

\* What process_mail_by_uid returns once it has classified a message
\* (lines 492 and 500).
process_result_Dropped(unique_id) == NONE

process_result(unique_id) == unique_id

\* Where process_mail_by_uid goes after notify_slack (lines 497-498).
after_slack_SkipLine == "commit"

after_slack == "line"

\* Lines 569-571: check_mail returns when the save of the bootstrap failed.
bootstrap_failure_returns_Continue(saved) == FALSE

bootstrap_failure_returns(saved) == ~saved

\* Lines 459-469: of the outcomes of the full fetch only an exception leaves
\* process_mail_by_uid; a status that is not OK and a response without body
\* make it return None.
fetch_aborts_OnFailure(outcome) == outcome # "ok"

fetch_aborts(outcome) == outcome = "raise"

\* Lines 579-583: process_mail_by_uid is handed the very set check_mail adds
\* the tokens of the processed messages to, not the set as it was loaded.
checked_set_AsLoaded(in_memory, loaded) == loaded

checked_set(in_memory, loaded) == in_memory

\* Lines 582-583: the tokens added for a processed message.
commit_tokens_NoUid(unique_id, uid_str) == {unique_id}

commit_tokens_UidOnly(unique_id, uid_str) == {UidToken(uid_str)}

commit_tokens(unique_id, uid_str) == {unique_id, UidToken(uid_str)}

\* Line 585: the set is saved after every processed message, whatever remains
\* to be processed.
save_after_commit_Batched(remaining) == remaining = <<>>

save_after_commit(remaining) == TRUE

\* Lines 585-588: check_mail returns when the save after a commit failed.
save_failure_returns_Continue(saved) == FALSE

save_failure_returns(saved) == ~saved

SeqRange(s) == {s[i] : i \in 1..Len(s)}

(* ----------------------------------------------------------- the state *)

VARIABLES
    mailbox,         \* position -> message name or NoMsg: the search window
    file,            \* the store file
    pc,              \* where main is
    processed_ids,   \* check_mail's in-memory set
    uids_to_check,   \* phase 2's remaining positions
    uids_to_mark,    \* phase 2's bootstrap list
    truly_new_uids,  \* phase 3's remaining positions (the head is in process)
    cur,             \* the message process_mail_by_uid is working on
    connOpen,        \* the IMAP connection is open
    slackCalls,      \* message name -> calls of notify_slack, ever
    lineCalls,       \* message name -> calls of notify_line, ever
    lastLoad,        \* the last load_processed_ids call: file kind and result
    cyc,             \* the record of the current (or last) cycle
    prev,            \* the summary of the cycle before it
    settled,         \* positions whose non-target message was committed and saved
    dispatchFailed,  \* <<channel, message name>> of the notify calls that failed
    startup,         \* verify_storage in this run of main: inputs and result
    crashes,
    faults,
    changes,
    arg,             \* a function studied on its own: its input
    ret              \* ... and what the call did and returned

locals == <<processed_ids, uids_to_check, uids_to_mark, truly_new_uids, cur>>
calls == <<slackCalls, lineCalls>>
vars == <<mailbox, file, pc, processed_ids, uids_to_check, uids_to_mark,
          truly_new_uids, cur, connOpen, slackCalls, lineCalls, lastLoad, cyc,
          prev, settled, dispatchFailed, startup, crashes, faults, changes,
          arg, ret>>

NoCur == [uid |-> 0, msg |-> NoMsg, result |-> NONE, source |-> NONE]
NoCalls == [n \in MsgNames |-> 0]
NoLoad == [k |-> "none", ids |-> {}, ok |-> FALSE, raised |-> FALSE, migrated |-> FALSE]
NoArg == [fn |-> "none"]
NoRet == [fn |-> "none"]
NoStartup == [probe |-> "none", loaded |-> "none", result |-> "none"]
NoPrev == [clean |-> FALSE, savesOk |-> FALSE, dispatched |-> FALSE]

\* status: none | running | completed (the loop ended, or nothing to check) |
\*         stopped (a save failed) | aborted (load failure or exception)
FreshCyc ==
    [status |-> "none", loaded |-> "none", ids0 |-> {}, slack |-> NoCalls,
     line |-> NoCalls, fullFail |-> FALSE, lightFail |-> FALSE, saveFail |-> FALSE,
     conn |-> 0, lightF |-> {}, fullF |-> {}, failedF |-> {}, committed |-> {},
     bootFail |-> FALSE, connEnd |-> "none"]

Summary(c) ==
    [clean |-> c.status = "completed" /\ ~c.saveFail /\ ~c.fullFail,
     savesOk |-> c.status = "completed" /\ ~c.saveFail,
     dispatched |-> \E n \in MsgNames : c.slack[n] > 0]

\* A store written by an earlier run records the notifications that run sent:
\* one call per channel for each message whose identity token it holds (in the
\* legacy format or the current one).
RecordedCalls(f) ==
    [n \in MsgNames |->
        IF f.k = "array"
           /\ get_unique_id(Message(n).gm_msgid, Message(n).message_id)
                  \in migrate_old_id_format(f.items)
        THEN 1 ELSE 0]

InitFiles ==
    {AbsentFile, ArrayFile({"7"}), InvalidFile,
     [k |-> "undecodable", items |-> {}], [k |-> "object", items |-> {}],
     [k |-> "scalar", items |-> {}], [k |-> "nonstr", items |-> {"gm:7"}]}

Init ==
    /\ mailbox \in [Positions -> MsgNames \cup {NoMsg}]
    /\ file \in InitFiles
    /\ pc = "start"
    /\ processed_ids = {}
    /\ uids_to_check = <<>>
    /\ uids_to_mark = <<>>
    /\ truly_new_uids = <<>>
    /\ cur = NoCur
    /\ connOpen = FALSE
    /\ slackCalls = RecordedCalls(file)
    /\ lineCalls = RecordedCalls(file)
    /\ lastLoad = NoLoad
    /\ cyc = FreshCyc
    /\ prev = NoPrev
    /\ settled = {}
    /\ dispatchFailed = {}
    /\ startup = NoStartup
    /\ crashes = 0
    /\ faults = 0
    /\ changes = 0
    /\ arg = NoArg
    /\ ret = NoRet

Events == crashes + faults + changes

\* The outcomes the environment may choose for an operation: success, or one of
\* `bad` while the budget of failures lasts.
Outcomes(bad) == {"ok"} \cup (IF Events < MaxEvents THEN bad ELSE {})
FaultCount(o) == IF o = "ok" THEN 0 ELSE 1

\* The finally block of imap_connection (lines 349-354), by the state the
\* connection is in: close() is legal only with a mailbox selected, and when it
\* raises, logout() is not reached and the connection is left as it is.
\*   none      IMAP4_SSL() raised: there is no connection
\*   nonauth   login raised
\*   selected  the with block was entered
imap_connection_exit(imap_state) ==
    CASE imap_state = "none" -> "none"
      [] imap_state = "nonauth" -> "left_open"
      [] imap_state = "selected" -> "closed"

\* check_mail returns (or its exception is caught at line 590) with the
\* connection in imap_state: the locals are gone, main sleeps.
ReturnFrom(c, imap_state) ==
    /\ pc' = "idle"
    /\ processed_ids' = {}
    /\ uids_to_check' = <<>>
    /\ uids_to_mark' = <<>>
    /\ truly_new_uids' = <<>>
    /\ cur' = NoCur
    /\ connOpen' = FALSE
    /\ cyc' = [c EXCEPT !.connEnd = imap_connection_exit(imap_state)]

\* The same from inside the with block.
ReturnWith(c) == ReturnFrom(c, "selected")

(* --------------------------------------------------------- the actions *)

\* What the load reported: ok (ok=true), corrupt (ok=false), raise (exception).
LoadReport(r) == IF r.raised THEN "raise" ELSE IF r.ok THEN "ok" ELSE "corrupt"

\* verify_storage's result (lines 613-636): the directory could be made, the
\* probe file written and deleted, and the load reported success.
verify_storage(probe, r) == probe = "ok" /\ r.ok

\* main, lines 646-649: the polling loop is entered only with the storage
\* verified.
main_polls_Always(storage_ok) == TRUE

main_polls(storage_ok) == storage_ok

\* notify_slack and notify_line catch every exception of the request
\* (lines 271-278 and 329-337): no outcome of the request leaves the call.
notify_raises_Propagate(outcome) == outcome = "exception"

notify_raises(outcome) == FALSE

\* main, lines 646-649: verify_storage (lines 595-636). The directory and the
\* probe file (write + delete) may fail; then load_processed_ids runs, saving a
\* migrated set at once, the result of that save being ignored (line 118). An
\* exception load_processed_ids lets escape ends the process.
VerifyStorage ==
    /\ pc = "start"
    /\ \E probe \in Outcomes({"dir_fail", "write_fail"}), sv \in Outcomes(SaveFaults) :
        LET r == load_processed_ids(file)
            loads == probe = "ok"
            saves == loads /\ r.migrated
            dies == loads /\ r.raised
            result == verify_storage(probe, r)
        IN  /\ (saves \/ sv = "ok")
            /\ file' = IF saves THEN save_processed_ids(file, r.ids, sv) ELSE file
            /\ lastLoad' = IF loads
                           THEN [k |-> file.k, ids |-> r.ids, ok |-> r.ok,
                                 raised |-> r.raised, migrated |-> r.migrated]
                           ELSE lastLoad
            /\ pc' = IF ~dies /\ main_polls(result) THEN "idle" ELSE "exited"
            /\ startup' = [probe |-> probe,
                           loaded |-> IF loads THEN LoadReport(r) ELSE "none",
                           result |-> IF dies THEN "raise"
                                      ELSE IF result THEN "true" ELSE "false"]
            /\ faults' = faults + FaultCount(probe) + FaultCount(sv)
    /\ UNCHANGED <<arg, ret, dispatchFailed, mailbox, locals, connOpen, calls, cyc,
                   prev,
                   settled, crashes, changes>>

\* check_mail, lines 520-526: load the set; give the cycle up when the load
\* failed (or raised: line 590 catches it).
Load ==
    /\ pc = "idle"
    /\ \E sv \in Outcomes(SaveFaults) :
        LET r == load_processed_ids(file)
        IN  /\ (r.migrated \/ sv = "ok")
            /\ file' = IF r.migrated THEN save_processed_ids(file, r.ids, sv) ELSE file
            /\ lastLoad' = [k |-> file.k, ids |-> r.ids, ok |-> r.ok,
                            raised |-> r.raised, migrated |-> r.migrated]
            /\ faults' = faults + FaultCount(sv)
            /\ prev' = Summary(cyc)
            /\ IF r.raised \/ load_aborts(r)
               THEN /\ pc' = "idle"
                    /\ processed_ids' = {}
                    /\ cyc' = [FreshCyc EXCEPT !.status = "aborted",
                                   !.loaded = LoadReport(r)]
               ELSE /\ pc' = "connect"
                    /\ processed_ids' = r.ids
                    /\ cyc' = [FreshCyc EXCEPT !.status = "running",
                                   !.loaded = LoadReport(r),
                                   !.ids0 = r.ids, !.saveFail = (sv # "ok")]
    /\ UNCHANGED <<arg, ret, dispatchFailed, startup, mailbox, uids_to_check,
                   uids_to_mark,
                   truly_new_uids, cur,
                   connOpen, calls, settled, crashes, changes>>

\* Lines 528-546: connect, log in, select, UID SEARCH, phase 1. Any of the
\* mailbox calls may raise (IMAP4_SSL, login or select, the search); with
\* nothing to check the cycle is over.
Search ==
    /\ pc = "connect"
    /\ \E o \in Outcomes({"raise_connect", "raise_login", "raise_search"}) :
        LET check == Phase1(UidList(mailbox), processed_ids)
            reached == CASE o = "raise_connect" -> "none"
                         [] o = "raise_login" -> "nonauth"
                         [] OTHER -> "selected"
        IN  /\ faults' = faults + FaultCount(o)
            /\ IF o # "ok" THEN
                   /\ ReturnFrom([cyc EXCEPT !.status = "aborted", !.conn = 1],
                                 reached)
               ELSE IF check = <<>> THEN
                   /\ ReturnWith([cyc EXCEPT !.status = "completed", !.conn = 1])
               ELSE
                   /\ pc' = "phase2"
                   /\ uids_to_check' = check
                   /\ connOpen' = TRUE
                   /\ cyc' = [cyc EXCEPT !.conn = 1]
                   /\ UNCHANGED <<processed_ids, uids_to_mark, truly_new_uids, cur>>
    /\ UNCHANGED <<arg, ret, dispatchFailed, startup, mailbox, file, calls,
                   lastLoad, prev,
                   settled, crashes, changes>>

\* Lines 553-562: phase 2 for the next unchecked position. A fetch whose
\* status is not OK yields None, which sends the position to full processing.
Lightweight ==
    /\ pc = "phase2"
    /\ \E o \in Outcomes({"no", "raise"}) :
        LET uid == Head(uids_to_check)
            rest == Tail(uids_to_check)
            gm_id == get_gm_msgid_lightweight(mailbox[uid], o)
            marked == AlreadyProcessed(gm_id, processed_ids)
            to_mark == IF marked THEN Append(uids_to_mark, uid) ELSE uids_to_mark
            new == IF marked THEN truly_new_uids ELSE Append(truly_new_uids, uid)
            c == [cyc EXCEPT !.lightF = @ \cup {uid},
                             !.lightFail = @ \/ (o # "ok")]
        IN  /\ faults' = faults + FaultCount(o)
            /\ IF o = "raise" THEN
                   ReturnWith([c EXCEPT !.status = "aborted"])
               ELSE
                   /\ uids_to_check' = rest
                   /\ uids_to_mark' = to_mark
                   /\ truly_new_uids' = new
                   /\ pc' = IF rest # <<>> THEN "phase2"
                            ELSE IF to_mark # <<>> THEN "bootstrap"
                            ELSE "fetch"
                   /\ cyc' = c
                   /\ UNCHANGED <<processed_ids, cur, connOpen>>
    /\ UNCHANGED <<arg, ret, dispatchFailed, startup, mailbox, file, calls,
                   lastLoad, prev,
                   settled, crashes, changes>>

\* Lines 565-571: add the uid: tokens of the marked positions and save once.
Bootstrap ==
    /\ pc = "bootstrap"
    /\ \E sv \in Outcomes(SaveFaults) :
        LET ids == processed_ids \cup {UidToken(DecStr(u)) : u \in SeqRange(uids_to_mark)}
        IN  /\ file' = save_processed_ids(file, ids, sv)
            /\ faults' = faults + FaultCount(sv)
            /\ IF ~bootstrap_failure_returns(sv = "ok") THEN
                   /\ pc' = "fetch"
                   /\ processed_ids' = ids
                   /\ uids_to_mark' = <<>>
                   /\ cyc' = [cyc EXCEPT !.bootFail = (sv # "ok"),
                                         !.saveFail = @ \/ (sv # "ok")]
                   /\ UNCHANGED <<uids_to_check, truly_new_uids, cur, connOpen>>
               ELSE
                   ReturnWith([cyc EXCEPT !.status = "stopped", !.saveFail = TRUE,
                                          !.bootFail = TRUE])
    /\ UNCHANGED <<arg, ret, dispatchFailed, startup, mailbox, calls, lastLoad,
                   prev, settled,
                   crashes, changes>>

\* Lines 577-579 with process_mail_by_uid up to its classification
\* (lines 457-492): the full fetch of the next truly-new position.
\*   raise    the mailbox call raises: the cycle is aborted
\*   no       status is not OK            (line 461)
\*   nobody   the response has no body    (line 467)
Fetch ==
    /\ pc = "fetch"
    /\ truly_new_uids # <<>>
    /\ \E o \in Outcomes({"no", "nobody", "raise"}) :
        LET uid == Head(truly_new_uids)
            m == Message(mailbox[uid])
            unique_id == get_unique_id(m.gm_msgid, m.message_id)
            src == determine_source(m.subject)
            c == [cyc EXCEPT !.fullF = @ \cup {uid},
                             !.failedF = IF o \in {"no", "nobody"}
                                         THEN @ \cup {uid} ELSE @,
                             !.fullFail = @ \/ (o # "ok")]
        IN  /\ faults' = faults + FaultCount(o)
            /\ IF fetch_aborts(o) THEN
                   ReturnWith([c EXCEPT !.status = "aborted"])
               ELSE IF \/ o # "ok"
                       \/ ~Truthy(unique_id)
                       \/ identity_known(unique_id,
                                         checked_set(processed_ids, cyc.ids0)) THEN
                   \* process_mail_by_uid returns None: nothing is added
                   /\ truly_new_uids' = Tail(truly_new_uids)
                   /\ cyc' = c
                   /\ UNCHANGED <<pc, processed_ids, uids_to_check, uids_to_mark,
                                  cur, connOpen>>
               ELSE
                   /\ cur' = [uid |-> uid, msg |-> mailbox[uid],
                              result |-> process_result(unique_id),
                              source |-> src.source]
                   /\ pc' = IF Truthy(src.source) THEN "slack" ELSE "commit"
                   /\ cyc' = c
                   /\ UNCHANGED <<processed_ids, uids_to_check, uids_to_mark,
                                  truly_new_uids, connOpen>>
    /\ UNCHANGED <<arg, ret, dispatchFailed, startup, mailbox, file, calls,
                   lastLoad, prev,
                   settled, crashes, changes>>

\* Line 497: notify_slack is called for the message. The request may come back
\* with an error status or raise; notify_slack reports that and returns.
NotifySlack ==
    /\ pc = "slack"
    /\ \E o \in Outcomes({"error_status", "exception"}) :
        LET c == [cyc EXCEPT !.slack[cur.msg] = @ + 1]
        IN  /\ slackCalls' = [slackCalls EXCEPT ![cur.msg] = @ + 1]
            /\ faults' = faults + FaultCount(o)
            /\ dispatchFailed' = IF o = "ok" THEN dispatchFailed
                                 ELSE dispatchFailed \cup {<<"slack", cur.msg>>}
            /\ IF notify_raises(o) THEN
                   ReturnWith([c EXCEPT !.status = "aborted"])
               ELSE
                   /\ pc' = after_slack
                   /\ cyc' = c
                   /\ UNCHANGED <<locals, connOpen>>
    /\ UNCHANGED <<arg, ret, startup, mailbox, file, lineCalls, lastLoad, prev, settled,
                   crashes, changes>>

\* Line 498: notify_line is called for the message, with the same outcomes.
NotifyLine ==
    /\ pc = "line"
    /\ \E o \in Outcomes({"error_status", "exception"}) :
        LET c == [cyc EXCEPT !.line[cur.msg] = @ + 1]
        IN  /\ lineCalls' = [lineCalls EXCEPT ![cur.msg] = @ + 1]
            /\ faults' = faults + FaultCount(o)
            /\ dispatchFailed' = IF o = "ok" THEN dispatchFailed
                                 ELSE dispatchFailed \cup {<<"line", cur.msg>>}
            /\ IF notify_raises(o) THEN
                   ReturnWith([c EXCEPT !.status = "aborted"])
               ELSE
                   /\ pc' = "commit"
                   /\ cyc' = c
                   /\ UNCHANGED <<locals, connOpen>>
    /\ UNCHANGED <<arg, ret, startup, mailbox, file, slackCalls, lastLoad, prev,
                   settled,
                   crashes, changes>>

\* Lines 580-588: with a unique id returned, add both tokens and save; a save
\* that fails ends the cycle.
Commit ==
    /\ pc = "commit"
    /\ \E sv \in Outcomes(SaveFaults) :
        LET rest == Tail(truly_new_uids)
            ids == processed_ids \cup commit_tokens(cur.result, DecStr(cur.uid))
            saves == Truthy(cur.result) /\ save_after_commit(rest)
        IN  /\ (saves \/ sv = "ok")
            /\ faults' = faults + FaultCount(sv)
            /\ file' = IF saves THEN save_processed_ids(file, ids, sv) ELSE file
            /\ settled' = IF saves /\ sv = "ok" /\ ~Truthy(cur.source)
                          THEN settled \cup {cur.uid} ELSE settled
            /\ IF ~Truthy(cur.result) THEN
                   /\ pc' = "fetch"
                   /\ truly_new_uids' = rest
                   /\ cur' = NoCur
                   /\ UNCHANGED <<processed_ids, uids_to_check, uids_to_mark,
                                  connOpen, cyc>>
               ELSE IF ~save_failure_returns(sv = "ok") THEN
                   /\ pc' = "fetch"
                   /\ truly_new_uids' = rest
                   /\ cur' = NoCur
                   /\ processed_ids' = ids
                   /\ cyc' = [cyc EXCEPT !.committed =
                                  @ \cup commit_tokens(cur.result, DecStr(cur.uid)),
                                  !.saveFail = @ \/ (sv # "ok")]
                   /\ UNCHANGED <<uids_to_check, uids_to_mark, connOpen>>
               ELSE
                   ReturnWith([cyc EXCEPT !.status = "stopped", !.saveFail = TRUE])
    /\ UNCHANGED <<arg, ret, dispatchFailed, startup, mailbox, calls, lastLoad,
                   prev, crashes,
                   changes>>

\* Line 577: the loop over the truly-new positions ends; check_mail returns.
FinishCycle ==
    /\ pc = "fetch"
    /\ truly_new_uids = <<>>
    /\ ReturnWith([cyc EXCEPT !.status = "completed"])
    /\ UNCHANGED <<arg, ret, dispatchFailed, startup, mailbox, file, calls,
                   lastLoad, prev,
                   settled, crashes, faults,
                   changes>>

(* ------------------------------------------------------ the environment *)

Restarted ==
    /\ pc' = "start"
    /\ processed_ids' = {}
    /\ uids_to_check' = <<>>
    /\ uids_to_mark' = <<>>
    /\ truly_new_uids' = <<>>
    /\ cur' = NoCur
    /\ connOpen' = FALSE
    /\ cyc' = FreshCyc
    /\ prev' = NoPrev
    /\ startup' = NoStartup

\* The process is killed between two steps and started again: the file stays,
\* everything in memory is lost.
Crash ==
    /\ pc \notin {"start", "exited"}
    /\ Events < MaxEvents
    /\ crashes' = crashes + 1
    /\ Restarted
    /\ UNCHANGED <<arg, ret, dispatchFailed, mailbox, file, calls, lastLoad,
                   settled, faults,
                   changes>>

\* A save is the next thing the process does.
SavePending ==
    \/ pc \in {"start", "idle"} /\ load_processed_ids(file).migrated
    \/ pc = "bootstrap"
    \/ pc = "commit" /\ Truthy(cur.result) /\ save_after_commit(Tail(truly_new_uids))

\* The process is killed inside save_processed_ids (lines 135-136): after
\* open(..., "w") truncated the file and before json.dump wrote all of it.
CrashDuringSave ==
    /\ SavePending
    /\ Events < MaxEvents
    /\ crashes' = crashes + 1
    /\ file' = InvalidFile
    /\ Restarted
    /\ UNCHANGED <<arg, ret, dispatchFailed, mailbox, calls, lastLoad, settled,
                   faults, changes>>

\* main has returned (line 649) or died of an exception; the platform starts
\* the service again.
Restart ==
    /\ pc = "exited"
    /\ pc' = "start"
    /\ startup' = NoStartup
    /\ UNCHANGED <<arg, ret, dispatchFailed, mailbox, file, locals, connOpen, calls,
                   lastLoad,
                   cyc, prev, settled, crashes, faults, changes>>

\* While main sleeps, the content of one position changes: a message arrives,
\* leaves the window, or the mailbox assigns the position to another message.
MailboxChange ==
    /\ pc = "idle"
    /\ Events < MaxEvents
    /\ \E p \in Positions, n \in MsgNames \cup {NoMsg} :
        /\ n # mailbox[p]
        /\ mailbox' = [mailbox EXCEPT ![p] = n]
        /\ settled' = settled \ {p}
    /\ changes' = changes + 1
    /\ cyc' = FreshCyc
    /\ prev' = NoPrev
    /\ UNCHANGED <<arg, ret, dispatchFailed, startup, file, pc, locals, connOpen, calls,
                   lastLoad, crashes, faults>>

(* ---------------------------------------------------- the specifications *)

\* The steps of the program itself.
Program ==
    \/ VerifyStorage
    \/ Load
    \/ Search
    \/ Lightweight
    \/ Bootstrap
    \/ Fetch
    \/ NotifySlack
    \/ NotifyLine
    \/ Commit
    \/ FinishCycle

Next ==
    \/ Program
    \/ Crash
    \/ CrashDuringSave
    \/ Restart
    \/ MailboxChange

Spec == Init /\ [][Next]_vars

\* The process is sequential and always takes its next step; a service that
\* exited is started again.
FairSpec == Spec /\ WF_vars(Program) /\ WF_vars(Restart)

(* ------------------------------------- the poller after a loss of uid: tokens *)

\* The store a run that processed every message of the mailbox leaves: the
\* identity token of each message that has one, and the uid: token of its
\* position.
IdentityTokens(mb) ==
    {get_unique_id(Message(mb[p]).gm_msgid, Message(mb[p]).message_id) :
        p \in {q \in Positions : mb[q] # NoMsg}} \ {NONE}
CoveredUidTokens(mb) ==
    {UidToken(DecStr(p)) :
        p \in {q \in Positions :
                  mb[q] # NoMsg
                  /\ Truthy(get_unique_id(Message(mb[q]).gm_msgid,
                                          Message(mb[q]).message_id))}}

\* The notify calls that store stands for: one per channel for each message
\* of one of the two sources.
DispatchedBefore(mb) ==
    [n \in MsgNames |->
        IF (\E p \in Positions : mb[p] = n)
           /\ Truthy(get_unique_id(Message(n).gm_msgid, Message(n).message_id))
           /\ Truthy(determine_source(Message(n).subject).source)
        THEN 1 ELSE 0]

\* main starts with such a store from which some (or all) of the uid: tokens
\* have gone.
UidLossInit ==
    /\ mailbox \in [Positions -> MsgNames \cup {NoMsg}]
    /\ \E kept \in SUBSET CoveredUidTokens(mailbox) :
        /\ kept # CoveredUidTokens(mailbox)
        /\ file = ArrayFile(IdentityTokens(mailbox) \cup kept)
    /\ pc = "start"
    /\ processed_ids = {}
    /\ uids_to_check = <<>>
    /\ uids_to_mark = <<>>
    /\ truly_new_uids = <<>>
    /\ cur = NoCur
    /\ connOpen = FALSE
    /\ slackCalls = DispatchedBefore(mailbox)
    /\ lineCalls = DispatchedBefore(mailbox)
    /\ lastLoad = NoLoad
    /\ cyc = FreshCyc
    /\ prev = NoPrev
    /\ settled = {}
    /\ dispatchFailed = {}
    /\ startup = NoStartup
    /\ crashes = 0
    /\ faults = 0
    /\ changes = 0
    /\ arg = NoArg
    /\ ret = NoRet

UidLossSpec == UidLossInit /\ [][Next]_vars

(* ------------------------------------------- the store, on its own *)

\* The tokens the sets given to migrate_old_id_format and save_processed_ids
\* are made of: legacy bare numbers, tokens of the three prefixes, a
\* Message-ID without prefix, the empty string.
Tokens == {"7", "42", "gm:7", "mid:a@x", "uid:1", "a@x", ""}

\* main is not running: the poller's variables at rest.
PollerAtRest ==
    /\ mailbox = [p \in Positions |-> NoMsg]
    /\ pc = "exited"
    /\ processed_ids = {}
    /\ uids_to_check = <<>>
    /\ uids_to_mark = <<>>
    /\ truly_new_uids = <<>>
    /\ cur = NoCur
    /\ connOpen = FALSE
    /\ slackCalls = NoCalls
    /\ lineCalls = NoCalls
    /\ lastLoad = NoLoad
    /\ cyc = FreshCyc
    /\ prev = NoPrev
    /\ settled = {}
    /\ dispatchFailed = {}
    /\ startup = NoStartup
    /\ crashes = 0
    /\ faults = 0
    /\ changes = 0

pollerVars == <<mailbox, pc, locals, connOpen, calls, lastLoad, cyc, prev, settled,
                dispatchFailed, startup, crashes, faults, changes>>

StoreInit ==
    /\ PollerAtRest
    /\ file \in {AbsentFile, ArrayFile({"gm:9", "uid:3"}), InvalidFile}
    /\ arg \in {[fn |-> "store", ids |-> T] : T \in SUBSET Tokens}
    /\ ret = NoRet

\* migrate_old_id_format(ids)
CallMigrate ==
    /\ ret.fn = "none"
    /\ ret' = [fn |-> "migrate", out |-> migrate_old_id_format(arg.ids)]
    /\ UNCHANGED <<pollerVars, file, arg>>

\* migrate_old_id_format applied to its own result
CallMigrateAgain ==
    /\ ret.fn = "migrate"
    /\ ret' = [fn |-> "migrate_twice", once |-> ret.out,
               out |-> migrate_old_id_format(ret.out)]
    /\ UNCHANGED <<pollerVars, file, arg>>

\* save_processed_ids(ids): it returns True exactly when the array was written.
CallSave ==
    /\ ret.fn = "none"
    /\ \E o \in {"ok"} \cup SaveFaults :
        /\ file' = save_processed_ids(file, arg.ids, o)
        /\ ret' = [fn |-> "save", out |-> (o = "ok")]
    /\ UNCHANGED <<pollerVars, arg>>

\* load_processed_ids() after the save, with its own save of a migrated set.
CallLoad ==
    /\ ret.fn = "save"
    /\ \E sv \in {"ok"} \cup SaveFaults :
        LET r == load_processed_ids(file)
        IN  /\ (r.migrated \/ sv = "ok")
            /\ file' = IF r.migrated THEN save_processed_ids(file, r.ids, sv) ELSE file
            /\ ret' = [fn |-> "load", saved |-> ret.out, ids |-> r.ids, ok |-> r.ok,
                       raised |-> r.raised]
    /\ UNCHANGED <<pollerVars, arg>>

StoreNext ==
    \/ CallMigrate
    \/ CallMigrateAgain
    \/ CallSave
    \/ CallLoad

StoreSpec == StoreInit /\ [][StoreNext]_vars

(* --------------------------------- the functions of a message, on their own *)

\* Anchors of an HTML document, as BeautifulSoup's find_all("a") lists them.
MaxAnchors == 2

\* The phrase of the anchor that leads to the application (an ASCII stand-in
\* for the Japanese one) and the keyword looked for in link targets.
CALL_TO_ACTION == "confirm application"
DOMAIN_KEYWORD == "indeed"

AnchorTexts == {"", "View job", "confirm application", "> confirm application now"}
AnchorTargets ==
    {NONE, "", "https://example.com/x", "https://indeed.com/job/2",
     "https://indeed.com/apply/1"}
Anchors == [text : AnchorTexts, href : AnchorTargets]

\* A document: absent (None or the empty string), or its anchors in order.
NoHtml == [given |-> FALSE, anchors |-> <<>>]
Documents ==
    {NoHtml} \cup
    {[given |-> TRUE, anchors |-> a] :
        a \in UNION {[1..n -> Anchors] : n \in 0..MaxAnchors}}

\* `a.get("href") or ""`
href_or_empty(a) == IF Truthy(a.href) THEN a.href ELSE ""

\* The first of the indices at which a loop's test holds, 0 when there is none.
FirstIndex(hits) ==
    IF hits = {} THEN 0 ELSE CHOOSE i \in hits : \A j \in hits : i <= j

extract_indeed_url_SinglePass(html) ==
    IF ~html.given THEN ""
    ELSE LET i == FirstIndex({k \in 1..Len(html.anchors) :
                     \/ Contains(html.anchors[k].text, CALL_TO_ACTION)
                     \/ Contains(href_or_empty(html.anchors[k]), DOMAIN_KEYWORD)})
         IN  IF i > 0 THEN href_or_empty(html.anchors[i]) ELSE ""

\* extract_indeed_url (lines 231-246): the first loop over the anchors looks
\* for the phrase in the text, the second for the keyword in the target.
extract_indeed_url(html) ==
    IF ~html.given THEN ""
    ELSE LET i == FirstIndex({k \in 1..Len(html.anchors) :
                     Contains(html.anchors[k].text, CALL_TO_ACTION)})
             j == FirstIndex({k \in 1..Len(html.anchors) :
                     Contains(href_or_empty(html.anchors[k]), DOMAIN_KEYWORD)})
         IN  IF i > 0 THEN href_or_empty(html.anchors[i])
             ELSE IF j > 0 THEN href_or_empty(html.anchors[j])
             ELSE ""

\* Subjects: with one marker, the other, both, neither, a marker cut short.
Subjects ==
    {"", "weekly newsletter", "Indeed: new applicant notice", "[jimoty] inquiry",
     "Fwd: new applicant notice - Taro", "new applicant notice via jimoty",
     "jimoty: new applicant notice", "new applicant", "Jimoty"}

\* Provider ids and Message-ID headers: absent, empty, present.
ProviderIds == {NONE, "7", "8"}
MessageIds == {NONE, "", "a@x", "b@x"}

MessageInit ==
    /\ PollerAtRest
    /\ file = AbsentFile
    /\ arg \in {[fn |-> "get_unique_id", gm_msgid |-> g, message_id |-> m] :
                    g \in ProviderIds, m \in MessageIds}
               \cup {[fn |-> "determine_source", subject |-> t] : t \in Subjects}
               \cup {[fn |-> "extract_indeed_url", html |-> d] : d \in Documents}
    /\ ret = NoRet

CallGetUniqueId ==
    /\ arg.fn = "get_unique_id" /\ ret.fn = "none"
    /\ ret' = [fn |-> "get_unique_id",
               out |-> get_unique_id(arg.gm_msgid, arg.message_id)]
    /\ UNCHANGED <<pollerVars, file, arg>>

CallDetermineSource ==
    /\ arg.fn = "determine_source" /\ ret.fn = "none"
    /\ ret' = [fn |-> "determine_source", out |-> determine_source(arg.subject)]
    /\ UNCHANGED <<pollerVars, file, arg>>

CallExtractIndeedUrl ==
    /\ arg.fn = "extract_indeed_url" /\ ret.fn = "none"
    /\ ret' = [fn |-> "extract_indeed_url", out |-> extract_indeed_url(arg.html)]
    /\ UNCHANGED <<pollerVars, file, arg>>

MessageNext ==
    \/ CallGetUniqueId
    \/ CallDetermineSource
    \/ CallExtractIndeedUrl

MessageSpec == MessageInit /\ [][MessageNext]_vars

(* ------------------------------------- the two notifiers, on their own *)

UPPER == "ABCDEFGHIJKLMNOPQRSTUVWXYZ"
LOWER == "abcdefghijklmnopqrstuvwxyz"

lower_char(c) ==
    IF \E i \in 1..Len(UPPER) : SubSeq(UPPER, i, i) = c
    THEN LET i == CHOOSE i \in 1..Len(UPPER) : SubSeq(UPPER, i, i) = c
         IN  SubSeq(LOWER, i, i)
    ELSE c

\* str.lower
RECURSIVE lower(_)
lower(str) ==
    IF str = "" THEN ""
    ELSE lower_char(SubSeq(str, 1, 1)) \o lower(SubSeq(str, 2, Len(str)))

\* The destinations of the two modes, and the values a variable of the
\* environment has when it is not configured: unset (None) or empty.
SLACK_TEST_URL == "https://hooks.test/T"
SLACK_PROD_URL == "https://hooks.prod/P"
LINE_TEST_ID == "Ctest"
LINE_PROD_ID == "Cprod"
Unset == {NONE, ""}

\* The module's configuration, read once from the environment (lines 24-29).
Envs ==
    [MODE : {"test", "TEST", "Test", "prod", "production", "tset", ""},
     SLACK_WEBHOOK_URL_TEST : Unset \cup {SLACK_TEST_URL},
     SLACK_WEBHOOK_URL_PROD : Unset \cup {SLACK_PROD_URL},
     LINE_CHANNEL_ACCESS_TOKEN : {NONE, "token"},
     LINE_TO_ID_TEST : Unset \cup {LINE_TEST_ID},
     LINE_TO_ID_PROD : Unset \cup {LINE_PROD_ID}]

is_test_mode(e) == (IF Truthy(e.MODE) THEN lower(e.MODE) ELSE "prod") = "test"

get_slack_webhook_url_Fallback(e) ==
    IF is_test_mode(e)
    THEN (IF Truthy(e.SLACK_WEBHOOK_URL_TEST) THEN e.SLACK_WEBHOOK_URL_TEST
          ELSE e.SLACK_WEBHOOK_URL_PROD)
    ELSE e.SLACK_WEBHOOK_URL_PROD

get_slack_webhook_url(e) ==
    IF is_test_mode(e) THEN e.SLACK_WEBHOOK_URL_TEST ELSE e.SLACK_WEBHOOK_URL_PROD

get_line_to_id(e) == IF is_test_mode(e) THEN e.LINE_TO_ID_TEST ELSE e.LINE_TO_ID_PROD

\* What requests.post does: it raises, or returns a response with a status.
StatusCodes == {200, 204, 299, 300, 304, 399, 400, 404, 500, 503}
Responses ==
    {[raised |-> TRUE, status_code |-> 0]}
        \cup {[raised |-> FALSE, status_code |-> c] : c \in StatusCodes}
NoResponse == [raised |-> FALSE, status_code |-> 0]

\* Lines 271-278 and 329-337: notify_error_to_slack is called for an exception
\* and for a status of 400 or more.
error_reports(response) ==
    IF response.raised THEN 1
    ELSE IF response.status_code >= 400 THEN 1
    ELSE 0

\* notify_slack (lines 250-278): the requests it posts, the calls of
\* notify_error_to_slack it makes, and whether an exception leaves it.
notify_slack(e, response) ==
    LET webhook_url == get_slack_webhook_url(e)
    IN  IF ~Truthy(webhook_url) THEN
            [requests |-> <<>>, reports |-> 0, raised |-> FALSE]
        ELSE
            [requests |-> <<[channel |-> "slack", to |-> webhook_url]>>,
             reports |-> error_reports(response), raised |-> FALSE]

\* notify_line (lines 281-337)
notify_line(e, response) ==
    LET line_to_id == get_line_to_id(e)
    IN  IF ~Truthy(e.LINE_CHANNEL_ACCESS_TOKEN) \/ ~Truthy(line_to_id) THEN
            [requests |-> <<>>, reports |-> 0, raised |-> FALSE]
        ELSE
            [requests |-> <<[channel |-> "line", to |-> line_to_id]>>,
             reports |-> error_reports(response), raised |-> FALSE]

NotifyInit ==
    /\ PollerAtRest
    /\ file = AbsentFile
    /\ arg \in {[fn |-> "notify", env |-> e] : e \in Envs}
    /\ ret = NoRet

CallNotifySlack ==
    /\ ret.fn = "none"
    /\ \E response \in Responses :
        LET r == notify_slack(arg.env, response)
        IN  ret' = [fn |-> "notify_slack",
                    response |-> IF r.requests = <<>> THEN NoResponse ELSE response,
                    requests |-> r.requests, reports |-> r.reports,
                    raised |-> r.raised]
    /\ UNCHANGED <<pollerVars, file, arg>>

CallNotifyLine ==
    /\ ret.fn = "none"
    /\ \E response \in Responses :
        LET r == notify_line(arg.env, response)
        IN  ret' = [fn |-> "notify_line",
                    response |-> IF r.requests = <<>> THEN NoResponse ELSE response,
                    requests |-> r.requests, reports |-> r.reports,
                    raised |-> r.raised]
    /\ UNCHANGED <<pollerVars, file, arg>>

NotifyNext ==
    \/ CallNotifySlack
    \/ CallNotifyLine

NotifySpec == NotifyInit /\ [][NotifyNext]_vars

(* ------------------------------------- the text of a notification *)

\* The mention ids of the two users (lines 38-41), set or not.
SLACK_INOUE == "U1"
SLACK_KONDO == "U2"
LINE_INOUE == "L1"
LINE_KONDO == "L2"

\* Display names taken from the From header (extract_name), and link targets.
Names == {"Taro", "Taro {HR}"}
Urls == {"", "https://indeed.com/apply/1"}

MentionEnvs ==
    [MODE : {"test", "prod"},
     SLACK_MENTION_INOUE_ID : Unset \cup {SLACK_INOUE},
     SLACK_MENTION_KONDO_ID : Unset \cup {SLACK_KONDO},
     LINE_MENTION_INOUE_ID : Unset \cup {LINE_INOUE},
     LINE_MENTION_KONDO_ID : Unset \cup {LINE_KONDO}]

\* add_test_prefix (lines 189-191), the prefix in ASCII.
add_test_prefix(e, message) ==
    IF is_test_mode(e) THEN "[TEST]\n" \o message ELSE message

\* notify_slack, lines 257-269: the JSON it posts for an Indeed application.
slack_json(e, name, url) ==
    LET mention_prefix ==
            IF Truthy(e.SLACK_MENTION_INOUE_ID) /\ Truthy(e.SLACK_MENTION_KONDO_ID)
            THEN "<@" \o e.SLACK_MENTION_INOUE_ID \o "> <@"
                     \o e.SLACK_MENTION_KONDO_ID \o ">\n"
            ELSE ""
        first == "[Indeed] [" \o name \o "] applied."
        lines == IF Truthy(url) THEN first \o "\n\nsee:\n" \o url ELSE first
    IN  [text |-> add_test_prefix(e, mention_prefix \o lines)]

\* notify_line, lines 288-322: the textV2 message it posts.
line_json(e, name, url) ==
    LET first == "[" \o name \o "] applied via Indeed."
        lines == IF Truthy(url) THEN first \o "\n\nsee:\n" \o url ELSE first
        base_message == add_test_prefix(e, lines)
        inoue == Truthy(e.LINE_MENTION_INOUE_ID)
        kondo == Truthy(e.LINE_MENTION_KONDO_ID)
        keys == (IF inoue THEN {"inoue"} ELSE {}) \cup (IF kondo THEN {"kondo"} ELSE {})
        mention_parts ==
            IF inoue /\ kondo THEN "{inoue} {kondo}"
            ELSE IF inoue THEN "{inoue}"
            ELSE IF kondo THEN "{kondo}"
            ELSE ""
    IN  [text |-> IF keys # {} THEN mention_parts \o " " \o base_message
                  ELSE base_message,
         substitution |->
             [k \in keys |-> IF k = "inoue" THEN e.LINE_MENTION_INOUE_ID
                             ELSE e.LINE_MENTION_KONDO_ID]]

MentionInit ==
    /\ PollerAtRest
    /\ file = AbsentFile
    /\ arg \in {[fn |-> "notify", env |-> e, name |-> n, url |-> u] :
                    e \in MentionEnvs, n \in Names, u \in Urls}
    /\ ret = NoRet

PostSlack ==
    /\ arg.fn = "notify" /\ ret.fn = "none"
    /\ ret' = [fn |-> "notify_slack", json |-> slack_json(arg.env, arg.name, arg.url)]
    /\ UNCHANGED <<pollerVars, file, arg>>

PostLine ==
    /\ arg.fn = "notify" /\ ret.fn = "none"
    /\ ret' = [fn |-> "notify_line", json |-> line_json(arg.env, arg.name, arg.url)]
    /\ UNCHANGED <<pollerVars, file, arg>>

MentionNext ==
    \/ PostSlack
    \/ PostLine

MentionSpec == MentionInit /\ [][MentionNext]_vars

(* ------------------------------------------- the error reporter *)

SLACK_ERROR_URL == "https://hooks.example/error"

\* Messages the callers hand to the reporter (lines 70-648).
ErrorMessages ==
    {"Slack notify failed: status=500", "LINE notify exception: timeout",
     "Failed to save processed IDs: disk full", "Gmail polling error: EOF"}

notify_error_to_slack_Uncaught(webhook, message, response) ==
    IF ~Truthy(webhook) THEN
        [posts |-> <<>>, logged |-> TRUE, reports |-> 0, raised |-> FALSE]
    ELSE
        [posts |-> <<[to |-> webhook, text |-> "error: " \o message]>>,
         logged |-> ~response.raised /\ response.status_code >= 400,
         reports |-> 0,
         raised |-> response.raised]

\* notify_error_to_slack (lines 145-164): the request it posts, whether it
\* writes an ERROR line to the log, the calls of notify_error_to_slack it makes
\* itself, and whether an exception leaves it. requests.post is inside the
\* try, and the handler of `except Exception` only logs.
notify_error_to_slack(webhook, message, response) ==
    IF ~Truthy(webhook) THEN
        [posts |-> <<>>, logged |-> TRUE, reports |-> 0, raised |-> FALSE]
    ELSE
        [posts |-> <<[to |-> webhook, text |-> "error: " \o message]>>,
         logged |-> response.raised \/ response.status_code >= 400,
         reports |-> 0,
         raised |-> FALSE]

ReporterInit ==
    /\ PollerAtRest
    /\ file = AbsentFile
    /\ arg \in {[fn |-> "notify_error_to_slack", webhook |-> w, message |-> m,
                 response |-> r] :
                    w \in Unset \cup {SLACK_ERROR_URL}, m \in ErrorMessages,
                    r \in Responses}
    /\ ret = NoRet

CallNotifyError ==
    /\ arg.fn = "notify_error_to_slack" /\ ret.fn = "none"
    /\ ret' = [fn |-> "notify_error_to_slack",
               out |-> notify_error_to_slack(arg.webhook, arg.message, arg.response)]
    /\ UNCHANGED <<pollerVars, file, arg>>

ReporterNext == CallNotifyError

ReporterSpec == ReporterInit /\ [][ReporterNext]_vars

(* ------------------------------------------------- terms of the claims *)

\* The identity token of a message, None when it has no identity signal.
Identity(n) == get_unique_id(Message(n).gm_msgid, Message(n).message_id)
\* The message carries a provider id or a Message-ID header.
HasIdentity(n) == Truthy(Message(n).gm_msgid) \/ Truthy(Message(n).message_id)
\* The subject holds the marker of one of the two sources.
IsTarget(n) ==
    \/ Contains(Message(n).subject, INDEED_MARKER)
    \/ Contains(Message(n).subject, JIMOTY_MARKER)
PositionsOf(n) == {p \in Positions : mailbox[p] = n}
InWindow(n) == PositionsOf(n) # {}
\* The tokens that stand for a message: its identity and its positions.
TokensOf(n) == {Identity(n)} \cup {UidToken(DecStr(p)) : p \in PositionsOf(n)}

NoDispatchInCycle == \A n \in MsgNames : cyc.slack[n] = 0 /\ cyc.line[n] = 0

\* The cycle ran to its end with every fetch and every save succeeding.
CleanCycle ==
    cyc.status = "completed" /\ ~cyc.saveFail /\ ~cyc.fullFail /\ ~cyc.lightFail

\* Target message n is new to the loaded set: its identity token is absent and
\* so is the uid: token of a position that holds it.
NewAtLoad(n) ==
    /\ InWindow(n) /\ IsTarget(n) /\ HasIdentity(n)
    /\ Identity(n) \notin cyc.ids0
    /\ \E p \in PositionsOf(n) : UidToken(DecStr(p)) \notin cyc.ids0

NotifiedTwice == {n \in MsgNames : slackCalls[n] > 1 \/ lineCalls[n] > 1}

(* ------------------------------------------------------------ the claims *)

\* C1, as amended: after a cycle that ran to completion with every save and
\* every full fetch succeeding, a cycle against the unchanged mailbox and the
\* store as persisted calls neither notify_slack nor notify_line.
C1_IdempotentAfterCleanCycle == prev.clean => NoDispatchInCycle

\* C1, as stated: the same with only the saves of the first cycle succeeding.
C1_IdempotentAfterSavedCycle == prev.savesOk => NoDispatchInCycle

C1_Witness == prev.clean /\ prev.dispatched /\ cyc.status = "completed"

\* C2: in a cycle whose fetches and saves all succeed, a target message with an
\* identity signal and neither token in the loaded set gets exactly one
\* notify_slack and one notify_line call, and the persisted store gains exactly
\* two tokens for it: its identity token and one uid: token of its position.
C2_NewMessageOnceAndTwoTokens ==
    CleanCycle =>
        \A n \in MsgNames :
            NewAtLoad(n) =>
                /\ cyc.slack[n] = 1
                /\ cyc.line[n] = 1
                /\ file.k = "array"
                /\ Identity(n) \in file.items
                /\ Cardinality((file.items \ cyc.ids0) \cap TokensOf(n)) = 2

C2_Witness ==
    /\ CleanCycle
    /\ \E n \in MsgNames : NewAtLoad(n) /\ cyc.slack[n] = 1 /\ cyc.line[n] = 1
    /\ \E n \in MsgNames : InWindow(n) /\ ~NewAtLoad(n)

\* C3: with a single crash (at any point of a cycle, inside a save included),
\* no other failure and the same mailbox, at most one message is ever notified
\* a second time.
C3_OneCrashOneDuplicate ==
    (crashes <= 1 /\ faults = 0 /\ changes = 0) => Cardinality(NotifiedTwice) <= 1

C3_Witness ==
    /\ crashes = 1 /\ faults = 0 /\ changes = 0
    /\ Cardinality(NotifiedTwice) = 1
    /\ \E n \in MsgNames \ NotifiedTwice : slackCalls[n] = 1 /\ lineCalls[n] = 1
    /\ cyc.status = "completed"

\* C4: after a crash, and with nothing else going wrong, every target message
\* of the window that has an identity signal is eventually notified on both
\* channels.
C4_NotifiedAfterCrash ==
    \A n \in MsgNames :
        (crashes > 0 /\ InWindow(n) /\ IsTarget(n) /\ HasIdentity(n))
            ~> ((slackCalls[n] > 0 /\ lineCalls[n] > 0) \/ faults > 0 \/ changes > 0)

\* C5: in a cycle whose fetches and saves succeed, a target message of the
\* window is left undispatched if and only if its identity token is in the
\* loaded set (a uid: token alone suppresses nothing).
C5_IdentityTokenDecides ==
    CleanCycle =>
        \A n \in MsgNames :
            (InWindow(n) /\ IsTarget(n) /\ HasIdentity(n)) =>
                ((cyc.slack[n] = 0 /\ cyc.line[n] = 0) <=> Identity(n) \in cyc.ids0)

\* C6: phase 3 commits a target message only after notify_slack and notify_line
\* were both called for it, and every token committed in the cycle is in the
\* store file before the next truly-new position is fetched.
C6_DispatchBeforeCommit ==
    /\ (pc = "commit" /\ Truthy(cur.source)) =>
           (cyc.slack[cur.msg] >= 1 /\ cyc.line[cur.msg] >= 1)
    /\ pc = "fetch" => (cyc.committed \subseteq file.items)

C6_Witness ==
    /\ pc = "fetch" /\ truly_new_uids # <<>>
    /\ cyc.committed # {}
    /\ \E n \in MsgNames : cyc.slack[n] = 1 /\ cyc.line[n] = 1

\* C7: a load of a store file that exists and is not a JSON array of strings
\* raises nothing and returns the empty set with ok = false.
C7_LoadNeverRaises ==
    lastLoad.k \in CorruptKinds =>
        (~lastLoad.raised /\ ~lastLoad.ok /\ lastLoad.ids = {})

\* A cycle whose load reported ok = false is over at once: no connection, no
\* notification, nothing committed, the empty set unused.
C8_Aborted ==
    cyc.loaded = "corrupt" =>
        /\ pc = "idle"
        /\ cyc.status = "aborted"
        /\ cyc.conn = 0
        /\ ~connOpen
        /\ NoDispatchInCycle
        /\ cyc.committed = {}

\* C8: in every state of a cycle whose load reported ok = false the above
\* holds, and the step into such a state changes neither the store file nor the
\* counts of notify calls.
C8_AbortOnFailedLoad ==
    /\ []C8_Aborted
    /\ [][cyc'.loaded = "corrupt" => (file' = file /\ calls' = calls)]_vars

C8_Witness ==
    /\ cyc.loaded = "corrupt"
    /\ \E n \in MsgNames : InWindow(n) /\ IsTarget(n) /\ HasIdentity(n)
    /\ crashes = 0

\* No notify call is ever made for a message with neither identity signal.
C9_NeverDispatched ==
    \A n \in MsgNames : ~HasIdentity(n) => (slackCalls[n] = 0 /\ lineCalls[n] = 0)

\* The full fetch of such a message (unless the process is killed or the
\* mailbox call raises) changes neither the set, the file nor the call counts,
\* and moves on to the next truly-new position.
C9_SkipStep ==
    (/\ pc = "fetch" /\ truly_new_uids # <<>>
     /\ ~HasIdentity(mailbox[Head(truly_new_uids)])
     /\ pc' # "start" /\ cyc'.status # "aborted")
    => (/\ pc' = "fetch"
        /\ truly_new_uids' = Tail(truly_new_uids)
        /\ file' = file
        /\ processed_ids' = processed_ids
        /\ calls' = calls)

\* C9: a message with neither a provider id nor a Message-ID is never
\* dispatched in any cycle, processing it adds no token to the in-memory set or
\* the store file and raises nothing, and the remaining truly-new positions
\* are processed after it.
C9_NoIdentitySkipped == []C9_NeverDispatched /\ [][C9_SkipStep]_vars

C9_Witness ==
    /\ cyc.status = "completed"
    /\ \E p, q \in Positions :
        /\ p < q
        /\ mailbox[p] # NoMsg /\ mailbox[q] # NoMsg
        /\ ~HasIdentity(mailbox[p])
        /\ NewAtLoad(mailbox[q])
        /\ {p, q} \subseteq cyc.fullF
        /\ cyc.slack[mailbox[q]] = 1

\* No notify call is ever made for a message of neither source.
C10_NeverDispatched ==
    \A n \in MsgNames : ~IsTarget(n) => (slackCalls[n] = 0 /\ lineCalls[n] = 0)

\* The tokens of a committed message of neither source stay in a readable store.
C10_Persisted ==
    \A p \in settled :
        file.k = "array" =>
            {Identity(mailbox[p]), UidToken(DecStr(p))} \subseteq file.items

\* The commit of a message of neither source that goes on to the next position
\* has written its identity token and its uid: token to the store file.
C10_CommitStep ==
    (pc = "commit" /\ ~Truthy(cur.source) /\ pc' = "fetch")
    => (/\ file'.k = "array"
        /\ {Identity(cur.msg), UidToken(DecStr(cur.uid))} \subseteq file'.items
        /\ cur.uid \in settled')

\* No step fetches (in full or lightweight) a position so committed.
C10_NoRefetch ==
    ((cyc'.fullF \cup cyc'.lightF) \ (cyc.fullF \cup cyc.lightF)) \cap settled = {}

\* C10: a truly-new message whose subject matches neither marker is never
\* dispatched; its identity token and its uid: token are committed and saved;
\* and no later cycle fetches its position again, in full or lightweight.
C10_NonTargetRecorded ==
    /\ [](C10_NeverDispatched /\ C10_Persisted)
    /\ [][C10_CommitStep /\ C10_NoRefetch]_vars

C10_Witness ==
    /\ cyc.status = "completed" /\ cyc.conn = 1
    /\ \E p \in settled : p \notin cyc.fullF /\ p \notin cyc.lightF
    /\ cyc.fullF # {}

\* A cycle that a failed save stopped is over: check_mail has returned, nothing
\* is left to process, the connection is closed.
C11_Stopped ==
    cyc.status = "stopped" =>
        (pc = "idle" /\ truly_new_uids = <<>> /\ cur = NoCur /\ ~connOpen)

\* The step of a failed save after a dispatch ends the cycle as a normal return
\* and makes no notify call.
C11_StopStep ==
    (pc = "commit" /\ Truthy(cur.source) /\ faults' > faults /\ pc' # "start")
    => (cyc'.status = "stopped" /\ pc' = "idle" /\ calls' = calls)

\* While the cycle so stopped is the last one, no position is fetched, no
\* notify call is made and nothing is committed.
C11_NothingAfter ==
    (cyc.status = "stopped" /\ cyc'.status = "stopped")
    => (cyc' = cyc /\ calls' = calls /\ file' = file)

\* C11: when the save of phase 3 fails after a message was dispatched,
\* check_mail returns normally at once: it fetches, dispatches and commits
\* nothing more in that cycle and makes no further notify call for the message
\* already notified.
C11_StopAfterSaveFailure ==
    []C11_Stopped /\ [][C11_StopStep /\ C11_NothingAfter]_vars

\* A failed save stopped a cycle that had dispatched a message while a truly-new
\* position was still waiting for its full fetch.
C11_Witness ==
    /\ cyc.status = "stopped"
    /\ \E n \in MsgNames : cyc.slack[n] = 1 /\ cyc.line[n] = 1
    /\ \E p \in Positions :
        /\ mailbox[p] # NoMsg
        /\ p \in cyc.lightF /\ p \notin cyc.fullF
        /\ Identity(mailbox[p]) \notin cyc.ids0
        /\ UidToken(DecStr(p)) \notin cyc.ids0

\* Nothing went wrong but notify calls that failed, each for another message
\* or channel: no crash, no change of the mailbox, no other failure.
OnlyDispatchFailures ==
    crashes = 0 /\ changes = 0 /\ faults = Cardinality(dispatchFailed)

\* A notify_slack call that fails is followed by the notify_line call for the
\* same message.
C13_LineAfterFailedSlack ==
    (pc = "slack" /\ faults' > faults /\ pc' # "start")
    => (pc' = "line" /\ cur' = cur /\ truly_new_uids' = truly_new_uids)

\* The notify_line call, failed or not, is followed by the commit of the message.
C13_CommitAfterLine ==
    (pc = "line" /\ pc' # "start")
    => (pc' = "commit" /\ cur' = cur /\ truly_new_uids' = truly_new_uids)

\* With only dispatch failures, a message whose dispatch failed got one call
\* per channel and no more; and once the cycle is complete its identity token
\* and a uid: token of its position are in the store file, and every target
\* message of the window was dispatched.
C13_FailedDispatchSettled ==
    OnlyDispatchFailures =>
        /\ \A d \in dispatchFailed :
               /\ slackCalls[d[2]] = 1
               /\ lineCalls[d[2]] <= 1
               /\ cyc.status = "completed" =>
                      /\ lineCalls[d[2]] = 1
                      /\ file.k = "array"
                      /\ Identity(d[2]) \in file.items
                      /\ \E p \in PositionsOf(d[2]) : UidToken(DecStr(p)) \in file.items
        /\ (cyc.status = "completed" /\ dispatchFailed # {}) =>
               \A n \in MsgNames :
                   (InWindow(n) /\ IsTarget(n) /\ HasIdentity(n)) =>
                       (slackCalls[n] = 1 /\ lineCalls[n] = 1)

\* C13: a notify call that fails does not end the processing of its message:
\* after a failed notify_slack the notify_line call is made, the message is
\* committed and saved, the remaining truly-new positions are processed, and
\* no later cycle dispatches the message again.
C13_DispatchFailureTolerated ==
    /\ []C13_FailedDispatchSettled
    /\ [][C13_LineAfterFailedSlack /\ C13_CommitAfterLine]_vars

\* notify_slack failed for message A, message B after it in the same cycle was
\* dispatched, and a later cycle has run to its end.
C13_Witness ==
    /\ OnlyDispatchFailures
    /\ prev.clean /\ prev.dispatched /\ cyc.status = "completed"
    /\ mailbox = <<"A", "B">>
    /\ dispatchFailed = {<<"slack", "A">>}
    /\ slackCalls["B"] = 1 /\ lineCalls["B"] = 1

\* C18: check_mail runs only in a run of main whose verify_storage returned
\* true; when the directory cannot be made, the probe file cannot be written
\* and deleted, or the load of the existing store fails, main ends without a
\* polling cycle.
C18_StartupGate ==
    /\ pc \notin {"start", "exited"} => startup.result = "true"
    /\ cyc.status # "none" => startup.result = "true"
    /\ (\/ startup.probe \in {"dir_fail", "write_fail"}
        \/ startup.loaded \in {"corrupt", "raise"})
       => (pc = "exited" /\ cyc.status = "none" /\ ~connOpen)

\* The store file was unreadable at startup, a target message was waiting, and
\* main has ended.
C18_Witness ==
    /\ pc = "exited"
    /\ startup.probe = "ok" /\ startup.loaded = "corrupt" /\ startup.result = "false"
    /\ \E n \in MsgNames :
        InWindow(n) /\ IsTarget(n) /\ HasIdentity(n) /\ slackCalls[n] = 0

\* The store file holds a legacy bare-numeric token.
HoldsLegacy(f) == f.k = "array" /\ migrate_old_id_format(f.items) # f.items

\* C17: after a load that migrated legacy tokens, check_mail goes on (mailbox
\* access, dispatch) only with the migrated set in the store file: in no state
\* past the load does the file still hold the legacy tokens.
C17_MigrationPersistedFirst ==
    (pc \in {"connect", "phase2", "bootstrap", "fetch", "slack", "line", "commit"}
     /\ lastLoad.migrated)
    => ~HoldsLegacy(file)

\* The gm:, mid: and uid: tokens the store file holds.
StoredTokens(f) ==
    IF f.k \in {"array", "object", "nonstr"}
    THEN {t \in f.items :
             StartsWith(t, "gm:") \/ StartsWith(t, "mid:") \/ StartsWith(t, "uid:")}
    ELSE {}

\* C20: no step of a cycle (the process not being killed) removes a gm:, mid:
\* or uid: token from the store file, whether the cycle goes on, stops on a
\* failed save or aborts.
C20_AppendOnly ==
    [][(pc \notin {"start", "exited"} /\ crashes' = crashes)
       => StoredTokens(file) \subseteq StoredTokens(file')]_vars

\* A legacy token: nothing but digits.
IsLegacy(t) == IsDigit(t)
\* A token of one of the three prefixes.
WellFormed(t) == StartsWith(t, "gm:") \/ StartsWith(t, "mid:") \/ StartsWith(t, "uid:")

\* C14: migrate_old_id_format works token by token: a token of digits n becomes
\* gm:n and is itself absent from the result, a token prefixed gm:, mid: or
\* uid: and any other string is kept as it is; so {n} becomes {gm:n}.
C14_MigrateElementwise ==
    ret.fn = "migrate" =>
        /\ ret.out = {IF IsLegacy(t) THEN "gm:" \o t ELSE t : t \in arg.ids}
        /\ \A t \in arg.ids :
               /\ IsLegacy(t) => (t \notin ret.out /\ ("gm:" \o t) \in ret.out)
               /\ ~IsLegacy(t) => t \in ret.out
        /\ \A n \in Tokens :
               (IsLegacy(n) /\ arg.ids = {n}) => ret.out = {"gm:" \o n}

C14_Witness ==
    /\ ret.fn = "migrate"
    /\ arg.ids = {"7", "42", "mid:a@x", "uid:1", "a@x"}
    /\ ret.out = {"gm:7", "gm:42", "mid:a@x", "uid:1", "a@x"}

\* C15: migrate_old_id_format returns a set of well-formed tokens as it is,
\* and applied to its own result it changes nothing.
C15_MigrateIdempotent ==
    /\ (ret.fn = "migrate" /\ \A t \in arg.ids : WellFormed(t)) => ret.out = arg.ids
    /\ ret.fn = "migrate_twice" => ret.out = ret.once

C15_Witness ==
    /\ ret.fn = "migrate_twice"
    /\ \E t \in arg.ids : IsLegacy(t)
    /\ \E t \in arg.ids : WellFormed(t)
    /\ ret.once # arg.ids
    /\ ret.out = ret.once

Notified == ret.fn \in {"notify_slack", "notify_line"}
\* The request was answered with a status outside 200..299, or it raised.
RequestFailed ==
    ret.response.raised \/ ret.response.status_code < 200 \/ ret.response.status_code > 299

\* C12: a call of notify_slack or notify_line posts at most one notification
\* request and raises nothing; when the request raises or is answered with a
\* status that is not 2xx, notify_error_to_slack is called exactly once, and
\* with a 2xx answer it is not called.
C12_FailureReportedOnce ==
    Notified =>
        /\ Len(ret.requests) <= 1
        /\ ~ret.raised
        /\ Len(ret.requests) = 1 => ret.reports = (IF RequestFailed THEN 1 ELSE 0)
        /\ Len(ret.requests) = 0 => ret.reports = 0

\* The destinations of a call's requests.
SentTo == {ret.requests[i].to : i \in 1..Len(ret.requests)}

\* C19: every MODE value selects one of two modes; a call in test mode posts to
\* no production destination and a call in production mode to no test
\* destination; and when the destination of the mode in force is not
\* configured the call posts nothing.
C19_ModeIsolation ==
    Notified =>
        LET e == arg.env
            slack == ret.fn = "notify_slack"
            own == IF is_test_mode(e)
                   THEN (IF slack THEN e.SLACK_WEBHOOK_URL_TEST ELSE e.LINE_TO_ID_TEST)
                   ELSE (IF slack THEN e.SLACK_WEBHOOK_URL_PROD ELSE e.LINE_TO_ID_PROD)
        IN  /\ is_test_mode(e) => SentTo \cap {SLACK_PROD_URL, LINE_PROD_ID} = {}
            /\ ~is_test_mode(e) => SentTo \cap {SLACK_TEST_URL, LINE_TEST_ID} = {}
            /\ SentTo \subseteq {own}
            /\ ~Truthy(own) => ret.requests = <<>>

\* In test mode with only the production webhook configured, notify_slack was
\* called and posted nothing.
C19_Witness ==
    /\ ret.fn = "notify_slack"
    /\ arg.env.MODE = "TEST"
    /\ arg.env.SLACK_WEBHOOK_URL_TEST = NONE
    /\ arg.env.SLACK_WEBHOOK_URL_PROD = SLACK_PROD_URL
    /\ ret.requests = <<>>

\* C21: a cycle that a raising mailbox call aborted has returned to main's
\* loop (nothing raised, the next cycle comes after the sleep), the tokens it
\* had committed are in the store file, and its connection, if one was made,
\* was closed.
C21_MailboxFailureAbortsCycle ==
    (cyc.status = "aborted" /\ cyc.loaded = "ok")
    => (/\ pc = "idle"
        /\ ~connOpen
        /\ file.k = "array" => cyc.committed \subseteq file.items
        /\ cyc.connEnd \in {"none", "closed"})

\* C22: from a store that holds the identity token of every message of the
\* mailbox and has lost some or all of its uid: tokens, no cycle against the
\* unchanged mailbox makes a notify call.
C22_UidLossIsSafe ==
    changes = 0 => (NoDispatchInCycle /\ slackCalls = DispatchedBefore(mailbox)
                    /\ lineCalls = DispatchedBefore(mailbox))

\* A cycle ran to its end over a mailbox of two recorded target messages whose
\* uid: tokens were both lost: one was marked again in phase 2, the other went
\* through the full fetch.
C22_Witness ==
    /\ changes = 0 /\ crashes = 0 /\ faults = 0
    /\ cyc.status = "completed"
    /\ mailbox = <<"A", "B">>
    /\ cyc.ids0 = {"gm:7", "mid:b@x"}
    /\ cyc.lightF = {1, 2}
    /\ cyc.fullF = {2}
    /\ file = ArrayFile({"gm:7", "mid:b@x", "uid:1"})

\* The positions phase 2 of the cycle looked at whose message carries a
\* provider id recorded in the loaded set.
Marked ==
    {p \in cyc.lightF :
        /\ mailbox[p] # NoMsg
        /\ Truthy(Message(mailbox[p]).gm_msgid)
        /\ GmToken(Message(mailbox[p]).gm_msgid) \in cyc.ids0}
InPhase3 == pc \in {"fetch", "slack", "line", "commit"}

\* Until phase 2 and the bootstrap are over nothing is fetched in full,
\* dispatched or committed; in phase 3 (the lightweight fetches having
\* succeeded) no marked position is fetched in full or dispatched, and the
\* store file holds the loaded set, the uid: tokens of all marked positions
\* and what phase 3 committed.
C23_BatchState ==
    /\ pc \in {"phase2", "bootstrap"} =>
           (cyc.fullF = {} /\ cyc.committed = {} /\ NoDispatchInCycle)
    /\ (InPhase3 /\ ~cyc.lightFail) =>
           /\ uids_to_mark = <<>>
           /\ Marked \cap cyc.fullF = {}
           /\ \A p \in Marked : cyc.slack[mailbox[p]] = 0 /\ cyc.line[mailbox[p]] = 0
           /\ Marked # {} =>
                  file = ArrayFile(cyc.ids0
                                   \cup {UidToken(DecStr(p)) : p \in Marked}
                                   \cup cyc.committed)

\* Phase 2 itself writes nothing, and the bootstrap is one save of the loaded
\* set with the uid: tokens of the whole batch.
C23_OneSave ==
    /\ (pc = "phase2" /\ pc' # "start") => file' = file
    /\ (pc = "bootstrap" /\ pc' = "fetch") =>
           /\ ~cyc.lightFail =>
                  file' = ArrayFile(cyc.ids0 \cup {UidToken(DecStr(p)) : p \in Marked})
           /\ processed_ids' = file'.items
           /\ calls' = calls

\* C23: the positions without uid: token whose provider id is recorded get
\* their uid: tokens in one save of the whole batch, made before any truly-new
\* position is processed, and are neither fetched in full nor dispatched.
C23_BootstrapBatch == []C23_BatchState /\ [][C23_OneSave]_vars

\* Two recorded messages had lost their uid: tokens; phase 2 marked both and
\* the bootstrap saved the two tokens.
C23_Witness ==
    /\ pc = "fetch"
    /\ mailbox = <<"A", "D">>
    /\ cyc.ids0 = {"gm:7", "gm:8"}
    /\ Marked = {1, 2}
    /\ file = ArrayFile({"gm:7", "gm:8", "uid:1", "uid:2"})
    /\ cyc.fullF = {}

\* C24: get_unique_id returns gm:<id> whenever there is a provider id, whatever
\* the Message-ID; mid:<Message-ID> when there is no provider id but a
\* Message-ID header; None when there is neither.
C24_IdentityDerivation ==
    ret.fn = "get_unique_id" =>
        /\ Truthy(arg.gm_msgid) => ret.out = "gm:" \o arg.gm_msgid
        /\ (~Truthy(arg.gm_msgid) /\ Truthy(arg.message_id))
               => ret.out = "mid:" \o arg.message_id
        /\ (~Truthy(arg.gm_msgid) /\ ~Truthy(arg.message_id)) => ret.out = NONE

C24_Witness ==
    /\ ret.fn = "get_unique_id"
    /\ arg.gm_msgid = "7" /\ arg.message_id = "a@x"
    /\ ret.out = "gm:7"

HasIndeedMarker(t) == Contains(t, INDEED_MARKER)
HasJimotyMarker(t) == Contains(t, JIMOTY_MARKER)

\* C25, as amended: a subject with the Indeed marker yields (indeed, None); a
\* subject with the classifieds marker and without the Indeed marker yields
\* (jimoty, the fixed URL); a subject with neither yields (None, None).
C25_ClassificationIndeedFirst ==
    ret.fn = "determine_source" =>
        /\ HasIndeedMarker(arg.subject) => ret.out = [source |-> "indeed", url |-> NONE]
        /\ (HasJimotyMarker(arg.subject) /\ ~HasIndeedMarker(arg.subject))
               => ret.out = [source |-> "jimoty", url |-> JIMOTY_URL]
        /\ (~HasIndeedMarker(arg.subject) /\ ~HasJimotyMarker(arg.subject))
               => ret.out = [source |-> NONE, url |-> NONE]

\* C25, as stated: every subject with the classifieds marker yields
\* (jimoty, the fixed URL).
C25_Classification ==
    ret.fn = "determine_source" =>
        /\ HasIndeedMarker(arg.subject) => ret.out = [source |-> "indeed", url |-> NONE]
        /\ HasJimotyMarker(arg.subject)
               => ret.out = [source |-> "jimoty", url |-> JIMOTY_URL]
        /\ (~HasIndeedMarker(arg.subject) /\ ~HasJimotyMarker(arg.subject))
               => ret.out = [source |-> NONE, url |-> NONE]

C25_Witness ==
    /\ ret.fn = "determine_source"
    /\ arg.subject = "[jimoty] inquiry"
    /\ ret.out = [source |-> "jimoty", url |-> JIMOTY_URL]

\* The anchors of the document whose text holds the phrase, and those whose
\* target holds the keyword.
TextMatches ==
    {i \in 1..Len(arg.html.anchors) : Contains(arg.html.anchors[i].text, CALL_TO_ACTION)}
TargetMatches ==
    {i \in 1..Len(arg.html.anchors) :
        /\ arg.html.anchors[i].href # NONE
        /\ Contains(arg.html.anchors[i].href, DOMAIN_KEYWORD)}
Least(S) == CHOOSE i \in S : \A j \in S : i <= j
TargetOf(i) ==
    IF arg.html.anchors[i].href = NONE THEN "" ELSE arg.html.anchors[i].href

\* C26: extract_indeed_url returns the target of the first anchor whose text
\* holds the call-to-action phrase, whatever the targets of the anchors before
\* it; with no such anchor the target of the first anchor whose target holds
\* the domain keyword; with neither the empty string.
C26_UrlExtraction ==
    ret.fn = "extract_indeed_url" =>
        /\ TextMatches # {} => ret.out = TargetOf(Least(TextMatches))
        /\ (TextMatches = {} /\ TargetMatches # {})
               => ret.out = TargetOf(Least(TargetMatches))
        /\ (TextMatches = {} /\ TargetMatches = {}) => ret.out = ""

C26_Witness ==
    /\ ret.fn = "extract_indeed_url"
    /\ arg.html.anchors =
           <<[text |-> "View job", href |-> "https://indeed.com/job/2"],
             [text |-> "> confirm application now", href |-> "https://indeed.com/apply/1"]>>
    /\ ret.out = "https://indeed.com/apply/1"

\* The texts that stand between an opening and a closing mark in a text.
Between(t, open, close) ==
    {SubSeq(t, i + Len(open), j - 1) :
        <<i, j>> \in {p \in (1..Len(t)) \X (1..Len(t)) :
            /\ p[1] + Len(open) <= p[2]
            /\ SubSeq(t, p[1], p[1] + Len(open) - 1) = open
            /\ SubSeq(t, p[2], p[2]) = close
            /\ \A k \in (p[1] + Len(open))..(p[2] - 1) : SubSeq(t, k, k) # close}}

\* The placeholders of a textV2 text, and the users a Slack text mentions.
Placeholders(t) == Between(t, "{", "}")
SlackMentions(t) == Between(t, "<@", ">")

ConfiguredLineKeys(e) ==
    (IF e.LINE_MENTION_INOUE_ID \in Unset THEN {} ELSE {"inoue"})
        \cup (IF e.LINE_MENTION_KONDO_ID \in Unset THEN {} ELSE {"kondo"})
ConfiguredSlackIds(e) ==
    {e.SLACK_MENTION_INOUE_ID, e.SLACK_MENTION_KONDO_ID} \ Unset

\* C27, LINE: the placeholders of the message text are the keys of the
\* substitution and are the configured LINE mention ids.
C27_LinePlaceholders ==
    ret.fn = "notify_line" =>
        /\ Placeholders(ret.json.text) = DOMAIN ret.json.substitution
        /\ DOMAIN ret.json.substitution = ConfiguredLineKeys(arg.env)

\* C27, Slack: a user is mentioned if and only if that user's Slack mention id
\* is configured.
C27_SlackMentions ==
    ret.fn = "notify_slack" =>
        SlackMentions(ret.json.text) = ConfiguredSlackIds(arg.env)

\* C27: mention directives appear exactly for the configured mention ids, in
\* the LINE message (placeholders and substitution keys) and in the Slack
\* message (one mention per configured id, none for an unconfigured one).
C27_MentionsWhenConfigured == C27_LinePlaceholders /\ C27_SlackMentions

\* C28: notify_error_to_slack never raises, whatever the outcome of its
\* request (error status, transport exception) and when its webhook is unset,
\* and never calls notify_error_to_slack itself; it posts at most once.
C28_ReporterIsTerminal ==
    ret.fn = "notify_error_to_slack" =>
        /\ ~ret.out.raised
        /\ ret.out.reports = 0
        /\ Len(ret.out.posts) <= 1
        /\ arg.webhook \in Unset => ret.out.posts = <<>>

C28_Witness ==
    /\ ret.fn = "notify_error_to_slack"
    /\ arg.webhook = SLACK_ERROR_URL
    /\ arg.response.raised
    /\ Len(ret.out.posts) = 1
    /\ ret.out.logged
    /\ ~ret.out.raised

\* The positions whose uid: token is in the store file.
StoredPositions == {p \in Positions : UidToken(DecStr(p)) \in StoredTokens(file)}

\* C29: while the mailbox keeps its messages at their positions, every uid:<p>
\* token of the store file stands beside the gm:/mid: identity token of the
\* message at position p.
C29_UidCoveredByIdentity ==
    changes = 0 =>
        \A p \in StoredPositions :
            /\ mailbox[p] # NoMsg
            /\ HasIdentity(mailbox[p])
            /\ Identity(mailbox[p]) \in StoredTokens(file)

C29_Witness ==
    /\ changes = 0
    /\ mailbox = <<"A", "B">>
    /\ StoredTokens(file) = {"gm:7", "uid:1", "mid:b@x", "uid:2"}
    /\ cyc.status = "completed"

\* The messages with an identity that stand at more than one position.
Repeated == {n \in MsgNames : HasIdentity(n) /\ Cardinality(PositionsOf(n)) > 1}
\* The positions of a message whose uid: token the cycle committed.
CommittedPositions(n) ==
    {p \in PositionsOf(n) : UidToken(DecStr(p)) \in cyc.committed}

\* C30: a message that stands at two truly-new positions is dispatched once in
\* the cycle, not once per position: the full fetch of the second position
\* finds the identity in the in-memory set and returns None, so that no uid:
\* token is committed for the second position.
C30_OncePerIdentity ==
    \A n \in Repeated :
        /\ cyc.slack[n] <= 1 /\ cyc.line[n] <= 1
        /\ Cardinality(CommittedPositions(n)) <= 1
        /\ (/\ cyc.status = "completed" /\ ~cyc.fullFail
            /\ PositionsOf(n) \subseteq cyc.fullF
            /\ Identity(n) \notin cyc.ids0
            /\ IsTarget(n))
               => /\ cyc.slack[n] = 1 /\ cyc.line[n] = 1
                  /\ Cardinality(CommittedPositions(n)) = 1
                  /\ Identity(n) \in cyc.committed

C30_Witness ==
    /\ mailbox = <<"B", "B">>
    /\ cyc.status = "completed" /\ ~cyc.fullFail
    /\ cyc.fullF = {1, 2}
    /\ cyc.slack["B"] = 1 /\ cyc.line["B"] = 1
    /\ cyc.committed = {"mid:b@x", "uid:1"}
    /\ "uid:2" \notin StoredTokens(file)

\* Phase 1 of the cycle is over.
PastPhase1 == pc \in {"phase2", "bootstrap", "fetch", "slack", "line", "commit"}

\* C31: a truly-new position whose full fetch fails (status not OK, or no body)
\* is skipped: no token is added for it, and a message whose positions all
\* failed is not dispatched; the failure does not end the cycle, the remaining
\* positions are fetched in the mailbox's order; and the position, left without
\* uid: token, is examined again in the next cycle, whose phase 1 examines
\* every position of the window that has no uid: token in the loaded set.
C31_FailedFetchSkipped ==
    /\ \A p \in cyc.failedF :
          /\ UidToken(DecStr(p)) \notin cyc.committed
          /\ UidToken(DecStr(p)) \notin processed_ids
          /\ UidToken(DecStr(p)) \notin StoredTokens(file)
    /\ \A n \in MsgNames :
          (InWindow(n) /\ PositionsOf(n) \subseteq cyc.failedF)
              => /\ cyc.slack[n] = 0 /\ cyc.line[n] = 0
                 /\ TokensOf(n) \cap cyc.committed = {}
    /\ (cyc.status = "aborted" /\ cyc.failedF # {})
          => faults > Cardinality(cyc.failedF)
    /\ InPhase3 =>
          \A p \in cyc.fullF : \A i \in 1..Len(truly_new_uids) :
              \/ p < truly_new_uids[i]
              \/ i = 1 /\ p = truly_new_uids[1] /\ pc # "fetch"
    /\ cyc.status = "completed" => (cyc.lightF \ Marked) \subseteq cyc.fullF
    /\ PastPhase1 =>
          \A p \in Positions :
              (mailbox[p] # NoMsg /\ UidToken(DecStr(p)) \notin cyc.ids0)
                  => p \in SeqRange(uids_to_check) \cup cyc.lightF

C31_Witness ==
    /\ mailbox = <<"A", "B">>
    /\ changes = 0 /\ crashes = 0 /\ faults = 1
    /\ cyc.failedF = {}
    /\ cyc.ids0 = {"mid:b@x", "uid:2"}
    /\ cyc.fullF = {1}
    /\ cyc.slack["A"] = 1 /\ cyc.line["A"] = 1
    /\ cyc.status = "completed"

\* The target messages of the window that the cycle found truly new: their
\* identity is not in the loaded set.
TrulyNewTargets ==
    {n \in MsgNames :
        InWindow(n) /\ IsTarget(n) /\ HasIdentity(n) /\ Identity(n) \notin cyc.ids0}

\* C32, the cycle: when the save of the bootstrap fails, check_mail returns
\* before phase 3; nothing is fetched in full, dispatched or committed.
C32_EndsBeforePhase3 ==
    cyc.bootFail =>
        /\ pc = "idle" /\ cyc.status = "stopped"
        /\ cyc.fullF = {} /\ cyc.committed = {}
        /\ NoDispatchInCycle

\* C32, later cycles: with nothing else going wrong, the truly-new target
\* messages of that cycle are notified in a later one.
C32_ProcessedLater ==
    \A n \in MsgNames :
        (cyc.bootFail /\ n \in TrulyNewTargets /\ slackCalls[n] = 0
            /\ faults = 1 /\ crashes = 0 /\ changes = 0)
            ~> (slackCalls[n] > 0 \/ faults > 1 \/ crashes > 0 \/ changes > 0)

\* The same when the failed save left the store file as it was.
C32_ProcessedLaterIfFileKept ==
    \A n \in MsgNames :
        (cyc.bootFail /\ n \in TrulyNewTargets /\ slackCalls[n] = 0
            /\ file.k = "array"
            /\ faults = 1 /\ crashes = 0 /\ changes = 0)
            ~> (slackCalls[n] > 0 \/ faults > 1 \/ crashes > 0 \/ changes > 0)

\* C32: a failed save of the bootstrap ends the cycle before phase 3, with no
\* full fetch and no notification, and the truly-new messages are processed in
\* a later cycle.
C32_BootstrapSaveFailure == []C32_EndsBeforePhase3 /\ C32_ProcessedLater

====
